---------------------------- MODULE Spec2Model ----------------------------
(***************************************************************************)
(* Invoice extractor (src/softr_webhook.py): the two submission endpoints, *)
(* /webhook and /softr-webhook, the background job process_background, the *)
(* extraction and persistence steps they share, and the temporary files    *)
(* they create and remove.                                                 *)
(*                                                                         *)
(* Every request r is served by its own handler thread; a detached run is  *)
(* a second thread started by the handler.  The file system, the           *)
(* completion service and the Airtable table are the shared environment.   *)
(***************************************************************************)
EXTENDS Naturals, Sequences, FiniteSets

\* ------------------------------------------------------------------ bounds
\* Number of requests served (concurrently) in one behaviour.
MaxReqs == 2

Reqs == 1..MaxReqs

\* ------------------------------------------------------------ request data
\* Python's None / a falsy string, for values read with dict.get.
None == "None"

\* The two URLs a caller submits: one with a .pdf suffix, one without.
Urls == {"https://h/inv.pdf", "https://h/inv"}

\* file_url.lower().endswith('.pdf')
EndsWithPdf(url) == url = "https://h/inv.pdf"

\* Uploaded file names, split at their dots: '' is <<>>, 'invoice' has no
\* dot, 'scan.PNG' has an upper-case extension, 'run.exe' a disallowed one.
Filenames == { <<>>, <<"invoice">>, <<"invoice", "pdf">>, <<"scan", "PNG">>,
               <<"run", "exe">> }

\* str.lower() on the extensions that occur.
Lower(s) == IF s = "PNG" THEN "png" ELSE s

\* ext = file.filename.rsplit('.',1)[1].lower() if '.' in file.filename else 'jpg'
ExtOf(filename) ==
    IF Len(filename) > 1 THEN Lower(filename[Len(filename)]) ELSE "jpg"

\* allowed = {'pdf','jpg','jpeg','png','gif','webp'}
allowed == {"pdf", "jpg", "jpeg", "png", "gif", "webp"}

\* JSON bodies: a non-object document (an array), and objects with the keys
\* file_url / fileUrl present or not (None: key missing); one URL comes
\* under each key.
NotAnObject == [is_object |-> FALSE, file_url |-> None, fileUrl |-> None]
JsonBodies ==
    { NotAnObject }
    \cup { [is_object |-> TRUE, file_url |-> None, fileUrl |-> None] }
    \cup { [is_object |-> TRUE, file_url |-> u, fileUrl |-> None] :
               u \in { v \in Urls : EndsWithPdf(v) } }
    \cup { [is_object |-> TRUE, file_url |-> None, fileUrl |-> u] :
               u \in { v \in Urls : ~EndsWithPdf(v) } }

\* What a handler reads of a request: the route, whether request.files has a
\* 'file' part and its filename, whether the body is JSON and its document.
Requests ==
    { [endpoint |-> e, has_file |-> TRUE, filename |-> f,
       is_json |-> FALSE, json |-> NotAnObject] :
         e \in {"/webhook", "/softr-webhook"}, f \in Filenames }
    \cup
    { [endpoint |-> e, has_file |-> FALSE, filename |-> <<>>,
       is_json |-> TRUE, json |-> j] :
         e \in {"/webhook", "/softr-webhook"}, j \in JsonBodies }
    \cup
    { [endpoint |-> e, has_file |-> FALSE, filename |-> <<>>,
       is_json |-> FALSE, json |-> NotAnObject] :
         e \in {"/webhook", "/softr-webhook"} }

NoRequest == [endpoint |-> "", has_file |-> FALSE, filename |-> <<>>,
              is_json |-> FALSE, json |-> NotAnObject]

\* data.get('file_url') or data.get('fileUrl')
FileUrlOf(json) == IF json.file_url # None THEN json.file_url ELSE json.fileUrl

\* A number for each request of Requests, no two alike.
KindOf(q) ==
    (IF q.endpoint = "/webhook" THEN 0 ELSE 20)
    + (IF q.has_file
       THEN 3 * Len(q.filename)
            + (IF ExtOf(q.filename) = "pdf" THEN 1
               ELSE IF ExtOf(q.filename) = "png" THEN 2 ELSE 0)
       ELSE IF q.is_json
       THEN 10 + (IF ~q.json.is_object THEN 0
                  ELSE IF FileUrlOf(q.json) = None THEN 1
                  ELSE IF EndsWithPdf(FileUrlOf(q.json)) THEN 2 ELSE 3)
       ELSE 19)

\* ------------------------------------------------------------- temp files
\* tempfile.NamedTemporaryFile(delete=False, suffix='.<ext>') yields a path
\* <tmpdir>/tmp<random><.ext> that did not exist; the random part is drawn
\* from Stems, and the same stem may be drawn again with another suffix.
Stems == Reqs
Exts == {"pdf", "jpg", "png", "exe"}
Paths == [stem : Stems, ext : Exts]
NoPath == [stem |-> 0, ext |-> ""]

\* A file: the run that wrote it and what it holds (an upload, a download,
\* a rasterized page); NoFile where there is none.
NoFile == [owner |-> 0, kind |-> "none"]

\* path.replace('.pdf', '.png'): the suffix is the only '.pdf' in a path.
ReplacePdfPng(p) == IF p.ext = "pdf" THEN [p EXCEPT !.ext = "png"] ELSE p

\* file_path.lower().endswith('.pdf')
IsPdf(p) == p.ext = "pdf"

\* ----------------------------------------------------------- invoice data
\* Number of line items of an extracted invoice.
MaxItems == 1

\* A dict key that is not there (dict.get then gives None or its default).
Missing == "<missing>"

\* The top-level keys of the JSON the prompt asks for, and the Airtable
\* column each is written to.
TopFields == {"invoice_number", "invoice_date", "vendor_name", "vendor_address",
              "customer_name", "customer_address", "subtotal", "tax",
              "total_amount", "currency"}
NumberFields == {"subtotal", "tax", "total_amount"}

ColumnOf(k) ==
    CASE k = "invoice_number"   -> "Invoice Number"
      [] k = "invoice_date"     -> "Invoice Date"
      [] k = "vendor_name"      -> "Vendor Name"
      [] k = "vendor_address"   -> "Vendor Address"
      [] k = "customer_name"    -> "Customer Name"
      [] k = "customer_address" -> "Customer Address"
      [] k = "subtotal"         -> "Subtotal"
      [] k = "tax"              -> "Tax"
      [] k = "total_amount"     -> "Total Amount"
      [] k = "currency"         -> "Currency"

\* A present value: the number 0 for the numeric keys (falsy in Python, but
\* not None), a non-empty string for the others.
PresentValue(k) == IF k \in NumberFields THEN "0" ELSE "text"

\* A line item, with sub-fields present, missing and null.
ItemSamples ==
    { [description |-> "Widget", quantity |-> Missing, unit_price |-> None, amount |-> "10"] }

RECURSIVE SeqsUpTo(_, _)
SeqsUpTo(S, n) ==
    IF n = 0 THEN { <<>> }
    ELSE LET shorter == SeqsUpTo(S, n - 1)
         IN  shorter \cup { Append(s, x) : s \in { t \in shorter : Len(t) = n - 1 }, x \in S }

\* invoice_data["line_items"]: key missing, null, or a list of items.
LineItemValues ==
    { [state |-> "missing", items |-> <<>>], [state |-> "null", items |-> <<>>] }
    \cup { [state |-> "list", items |-> s] : s \in SeqsUpTo(ItemSamples, MaxItems) }

\* The parsed JSON object json.loads returns for an invoice.
InvoiceData ==
    [top : [TopFields -> {Missing, None, "present"}], line_items : LineItemValues]

NoData == [top |-> [k \in TopFields |-> Missing],
           line_items |-> [state |-> "missing", items |-> <<>>]]

\* Values of a record handed to Airtable: None, a scalar, or the line-items
\* text (its lines, joined by "\n").
PyNone == [t |-> "none", s |-> "", lines |-> <<>>]
Scalar(s) == [t |-> "scalar", s |-> s, lines |-> <<>>]
Text(lines) == [t |-> "text", s |-> "", lines |-> lines]

\* invoice_data.get(k)
GetTop(invoice_data, k) ==
    IF invoice_data.top[k] \in {Missing, None} THEN PyNone
    ELSE Scalar(PresentValue(k))

\* itm.get(k, default), formatted into the f-string.
GetItem(itm, k, default) == IF itm[k] = Missing THEN default ELSE itm[k]

\* f"{description} – Qty: {quantity} × {unit_price} = {amount}"
RenderItem(itm) ==
    << GetItem(itm, "description", ""), GetItem(itm, "quantity", "0"),
       GetItem(itm, "unit_price", "0"), GetItem(itm, "amount", "0") >>

\* "\n".join([... for itm in line_items]); iterating None raises TypeError.
ItemsText(line_items) == [i \in 1..Len(line_items) |-> RenderItem(line_items[i])]

\* for itm in invoice_data.get("line_items", []): a null value is not iterable.
LineItemsRaise(invoice_data) == invoice_data.line_items.state = "null"

\* if source_file_url: (None and '' are falsy)
Truthy(x) == x \notin {None, ""}

\* record = {...}; if source_file_url: record["Source File URL"] = ...
FullRecord(invoice_data, source_file_url) ==
    LET cols == { ColumnOf(k) : k \in TopFields } \cup {"Line Items", "Status"}
                \cup (IF Truthy(source_file_url) THEN {"Source File URL"} ELSE {})
        key(c) == CHOOSE k \in TopFields : ColumnOf(k) = c
    IN  [c \in cols |->
            CASE c = "Line Items"      -> Text(ItemsText(invoice_data.line_items.items))
              [] c = "Status"          -> Scalar("Extracted")
              [] c = "Source File URL" -> Scalar(source_file_url)
              [] OTHER                 -> GetTop(invoice_data, key(c))]

\* A variant of the filter that keeps only truthy values ("if v").
FilterFalsy(record) ==
    [c \in { k \in DOMAIN record :
               record[k] \notin {PyNone, Scalar("0"), Scalar(""), Text(<<>>)} } |-> record[c]]

\* record = {k:v for k,v in record.items() if v is not None}
FilterNone(record) ==
    [c \in { k \in DOMAIN record : record[k] # PyNone } |-> record[c]]

\* A variant that does not pass the source URL on.
BuildRecordNoSource(invoice_data, source_file_url) ==
    FilterNone(FullRecord(invoice_data, None))

\* The record save_to_airtable passes to airtable_table.create.
BuildRecord(invoice_data, source_file_url) ==
    FilterNone(FullRecord(invoice_data, source_file_url))

EmptyRecord == [c \in {} |-> PyNone]

\* save_to_airtable(invoice_data, source_file_url) up to its call of the
\* store: "TypeError" when the line items cannot be iterated (no call is
\* made), else "create" with the record passed to airtable_table.create.
save_to_airtable(invoice_data, source_file_url) ==
    IF LineItemsRaise(invoice_data)
    THEN [outcome |-> "TypeError", record |-> EmptyRecord]
    ELSE [outcome |-> "create", record |-> BuildRecord(invoice_data, source_file_url)]

\* ------------------------------------------------- completion text parsing
\* Length of a JSON payload, in tokens.
MaxPayload == 5

\* Completion text is a sequence of tokens: the fence mark (three
\* backquotes), the word json, a newline, the opening and closing of an
\* object with one string member, and pieces of that string's content
\* ("{}" is also a whole JSON document).
Ticks == "<3 backquotes>"
Newline == "\n"
Open == "{'vendor_name':'"
Close == "'}"
Chunks == {Ticks, "json", "{}", "a"}

\* The valid JSON documents of at most n tokens.
JsonTexts(n) ==
    { <<"{}">> }
    \cup { <<Open>> \o c \o <<Close>> : c \in SeqsUpTo(Chunks, n - 2) }

\* json.loads: the object's members (none for {}), or a JSONDecodeError.
JSONDecodeError == [ok |-> FALSE, members |-> <<>>]
Loads(text) ==
    IF text = <<"{}">> THEN [ok |-> TRUE, members |-> <<>>]
    ELSE IF /\ Len(text) >= 2
            /\ text[1] = Open
            /\ text[Len(text)] = Close
            /\ \A i \in 2..(Len(text) - 1) : text[i] \in Chunks
         THEN [ok |-> TRUE, members |-> << SubSeq(text, 2, Len(text) - 1) >>]
         ELSE JSONDecodeError

\* The first index at which sep occurs in text, 0 if it does not.
Find(text, sep) ==
    LET hits == { i \in 1..(Len(text) - Len(sep) + 1) :
                    SubSeq(text, i, i + Len(sep) - 1) = sep }
    IN  IF hits = {} THEN 0 ELSE CHOOSE i \in hits : \A j \in hits : i <= j

\* sep in text
Contains(text, sep) == Find(text, sep) # 0

\* text.split(sep)[0]
SplitFirst(text, sep) ==
    IF Contains(text, sep) THEN SubSeq(text, 1, Find(text, sep) - 1) ELSE text

\* text.split(sep)[1], for a text that contains sep
SplitSecond(text, sep) ==
    SplitFirst(SubSeq(text, Find(text, sep) + Len(sep), Len(text)), sep)

\* With F the fence mark:
\* if "Fjson" in content: content = content.split("Fjson")[1].split("F")[0]
\* elif "F" in content:   content = content.split("F")[1].split("F")[0]
StripFence(content) ==
    IF Contains(content, <<Ticks, "json">>)
    THEN SplitFirst(SplitSecond(content, <<Ticks, "json">>), <<Ticks>>)
    ELSE IF Contains(content, <<Ticks>>)
         THEN SplitFirst(SplitSecond(content, <<Ticks>>), <<Ticks>>)
         ELSE content

\* str.strip()
RECURSIVE Strip(_)
Strip(text) ==
    IF text # <<>> /\ text[1] = Newline THEN Strip(Tail(text))
    ELSE IF text # <<>> /\ text[Len(text)] = Newline
         THEN Strip(SubSeq(text, 1, Len(text) - 1))
         ELSE text

\* data = json.loads(content.strip()), after the fence is removed
ParseContent(content) == Loads(Strip(StripFence(content)))

\* A payload as the completion service may present it.
Fences == {"json", "plain", "none"}
Wrap(fence, payload) ==
    CASE fence = "json"  -> <<Ticks, "json", Newline>> \o payload \o <<Newline, Ticks>>
      [] fence = "plain" -> <<Ticks, Newline>> \o payload \o <<Newline, Ticks>>
      [] fence = "none"  -> payload


\* Invoices the completion service returns in the request model: one with
\* null and missing keys, and one whose line_items is null.
SparseInvoice ==
    [top |-> [k \in TopFields |->
                IF k \in {"tax", "currency"} THEN None
                ELSE IF k = "vendor_address" THEN Missing ELSE "present"],
     line_items |-> [state |-> "list", items |->
        << [description |-> "Widget", quantity |-> "2", unit_price |-> "5", amount |-> "10"] >>]]
NullItemsInvoice ==
    [top |-> [k \in TopFields |-> "present"],
     line_items |-> [state |-> "null", items |-> <<>>]]
InvoiceSamples == {SparseInvoice, NullItemsInvoice}

\* ------------------------------------------------------------------ state
VARIABLES
    request,            \* r -> the request received, NoRequest before it arrives
    hpc,                \* r -> where the request handler is
    response,           \* r -> HTTP status returned, 0 while none
    args,               \* r -> (file_path, file_url) handed to process_background
    stage,              \* r -> where the pipeline run of r is
    tmp_path,           \* r -> tmp_path of webhook / process_background
    source_url,         \* r -> source_url of process_background
    invoice_data,       \* r -> what extract_invoice_data returned
    error,              \* r -> the exception raised while serving r
    fs,                 \* path -> the file there, NoFile if none
    completion_calls,   \* r -> calls of openai_client.chat.completions.create
    create_calls,       \* r -> calls of airtable_table.create
    rows,               \* r -> the records Airtable created for r, in order
    wrote,              \* r -> the files the run of r wrote, in order
    sent                \* r -> the file read and sent to the completion service

\* The arguments and results of the functions exercised on their own.
VARIABLES
    save_args,          \* (invoice_data, source_file_url) of save_to_airtable
    save_result,        \* what that call of save_to_airtable did
    payload,            \* the JSON document the completion service means
    content,            \* response.choices[0].message.content
    data                \* what extract_invoice_data made of content

runVars == << request, hpc, response, args, stage, tmp_path, source_url,
              invoice_data, error, fs, completion_calls, create_calls, rows,
              wrote, sent >>
saveVars == << save_args, save_result >>
parseVars == << payload, content, data >>
pureVars == << saveVars, parseVars >>
vars == << runVars, saveVars, parseVars >>

NoArgs == [file_path |-> NoPath, file_url |-> None]

\* No file read yet.
NoSent == [path |-> NoPath, file |-> NoFile]

NoSave == [outcome |-> "pending", record |-> EmptyRecord]
NoSaveArgs == [invoice_data |-> NoData, source_file_url |-> None]
Unparsed == [ok |-> FALSE, members |-> << <<"pending">> >>]

SaveIdle == save_args = NoSaveArgs /\ save_result = NoSave
ParseIdle == payload = <<>> /\ content = <<>> /\ data = Unparsed

RunInit ==
    /\ request = [r \in Reqs |-> NoRequest]
    /\ hpc = [r \in Reqs |-> "idle"]
    /\ response = [r \in Reqs |-> 0]
    /\ args = [r \in Reqs |-> NoArgs]
    /\ stage = [r \in Reqs |-> "none"]
    /\ tmp_path = [r \in Reqs |-> NoPath]
    /\ source_url = [r \in Reqs |-> None]
    /\ invoice_data = [r \in Reqs |-> NoData]
    /\ error = [r \in Reqs |-> "none"]
    /\ fs = [p \in Paths |-> NoFile]
    /\ completion_calls = [r \in Reqs |-> 0]
    /\ create_calls = [r \in Reqs |-> 0]
    /\ rows = [r \in Reqs |-> <<>>]
    /\ wrote = [r \in Reqs |-> <<>>]
    /\ sent = [r \in Reqs |-> NoSent]

Init == RunInit /\ SaveIdle /\ ParseIdle

\* ---------------------------------------------------------------- helpers
\* return jsonify(...), <status>: the handler ends.
Respond(r, status) ==
    /\ response' = [response EXCEPT ![r] = status]
    /\ hpc' = [hpc EXCEPT ![r] = "done"]

\* except Exception as e: ... return jsonify({"success": False, ...}), 500
\* The handler's tmp_path is still None here, so webhook's cleanup on error
\* removes nothing; softr_webhook has no cleanup.
Raise500(r, e) ==
    /\ error' = [error EXCEPT ![r] = e]
    /\ Respond(r, 500)

\* A variant that notes the exception and goes on to the store.
FailButPersist(r, e) ==
    /\ error' = [error EXCEPT ![r] = e]
    /\ stage' = [stage EXCEPT ![r] = IF stage[r] = "Persisting" THEN "Cleanup"
                                      ELSE "Persisting"]

\* An exception inside the pipeline: control passes to the cleanup block.
Fail(r, e) ==
    /\ error' = [error EXCEPT ![r] = e]
    /\ stage' = [stage EXCEPT ![r] = "Cleanup"]

\* The random stems some path of the state carries, and the stems worth
\* telling apart for a new name: those, and one that occurs nowhere (all
\* unused stems are alike).
UsedStems ==
    { p.stem : p \in { q \in Paths : fs[q] # NoFile } }
    \cup { tmp_path[r].stem : r \in Reqs } \cup { args[r].file_path.stem : r \in Reqs }
CandidateStems ==
    LET unused == Stems \ UsedStems
    IN  (Stems \cap UsedStems)
        \cup (IF unused = {} THEN {} ELSE { CHOOSE s \in unused : \A t \in unused : s <= t })

\* The paths NamedTemporaryFile(suffix='.<ext>') can return: any name that
\* does not exist yet.
FreshPaths(ext) ==
    { p \in Paths : p.ext = ext /\ fs[p] = NoFile /\ p.stem \in CandidateStems }

\* extract_invoice_data rasterizes first when the path ends with .pdf.
FirstStage(p) == IF IsPdf(p) THEN "Rasterizing" ELSE "Extracting"

\* The file extract_invoice_data reads and sends.
ImagePath(p) == IF IsPdf(p) THEN ReplacePdfPng(p) ELSE p

\* A variant of the cleanup that forgets the rasterized PNG.
CleanupFilesTmpOnly(files, path) ==
    IF path = NoPath THEN files
    ELSE [p \in Paths |-> IF p = path THEN NoFile ELSE files[p]]

\* if tmp_path and os.path.exists(tmp_path): os.unlink(tmp_path)
\* png_path = tmp_path.replace('.pdf', '.png') if tmp_path else None
\* if png_path and os.path.exists(png_path): os.unlink(png_path)
CleanupFiles(files, path) ==
    IF path = NoPath THEN files
    ELSE [p \in Paths |-> IF p = path \/ p = ReplacePdfPng(path) THEN NoFile ELSE files[p]]


\* ---------------------------------------------------------------- actions
\* A request arrives and Flask dispatches it to its route.  Requests are
\* served alike whatever their slot, so a request takes a slot that keeps the
\* slots in the order of KindOf: every choice of concurrent requests and
\* every order of arrival occurs, once.
Receive(r) ==
    /\ hpc[r] = "idle"
    /\ \E q \in Requests :
          /\ \A o \in Reqs \ {r} :
                hpc[o] # "idle" =>
                    IF o < r THEN KindOf(request[o]) <= KindOf(q)
                    ELSE KindOf(q) <= KindOf(request[o])
          /\ request' = [request EXCEPT ![r] = q]
    /\ hpc' = [hpc EXCEPT ![r] = "route"]
    /\ UNCHANGED << response, args, stage, tmp_path, source_url, invoice_data,
                    error, fs, completion_calls, create_calls, rows,
                    wrote, sent >>
    /\ UNCHANGED pureVars

\* webhook(), up to the point where the upload is saved or the URL is read.
WebhookRoute(r) ==
    LET q == request[r]
        ext == ExtOf(q.filename)
        file_url == FileUrlOf(q.json)
    IN
    /\ hpc[r] = "route"
    /\ q.endpoint = "/webhook"
    /\ IF q.has_file THEN
          IF q.filename = <<>> \/ ext \notin allowed THEN
             /\ Respond(r, 400)
             /\ UNCHANGED << fs, tmp_path, stage, error, args, wrote >>
          ELSE
             \* with NamedTemporaryFile(...) as tmp: file.save(tmp.name);
             \* tmp_path = tmp.name
             \E p \in FreshPaths(ext), saved \in BOOLEAN :
                /\ fs' = [fs EXCEPT ![p] = [owner |-> r, kind |-> "upload"]]
                /\ wrote' = [wrote EXCEPT ![r] = Append(@, p)]
                /\ IF saved THEN
                      /\ tmp_path' = [tmp_path EXCEPT ![r] = p]
                      /\ stage' = [stage EXCEPT ![r] = FirstStage(p)]
                      /\ hpc' = [hpc EXCEPT ![r] = "running"]
                      /\ UNCHANGED << response, error >>
                   ELSE
                      /\ Raise500(r, "save")
                      /\ UNCHANGED << tmp_path, stage >>
                /\ UNCHANGED args
       ELSE IF q.is_json THEN
          IF ~q.json.is_object THEN
             \* data.get on a list: AttributeError
             /\ Raise500(r, "json")
             /\ UNCHANGED << fs, tmp_path, stage, args, wrote >>
          ELSE IF file_url = None THEN
             /\ Respond(r, 400)
             /\ UNCHANGED << fs, tmp_path, stage, error, args, wrote >>
          ELSE
             /\ args' = [args EXCEPT ![r] = [file_path |-> NoPath, file_url |-> file_url]]
             /\ hpc' = [hpc EXCEPT ![r] = "spawn"]
             /\ UNCHANGED << response, fs, tmp_path, stage, error, wrote >>
       ELSE
          /\ Respond(r, 400)
          /\ UNCHANGED << fs, tmp_path, stage, error, args, wrote >>
    /\ UNCHANGED << request, source_url, invoice_data, completion_calls,
                    create_calls, rows,
                    sent >>
    /\ UNCHANGED pureVars

\* softr_webhook(), up to the point where the thread is about to be started.
SoftrRoute(r) ==
    LET q == request[r]
        ext == ExtOf(q.filename)
        file_url == FileUrlOf(q.json)
    IN
    /\ hpc[r] = "route"
    /\ q.endpoint = "/softr-webhook"
    /\ IF q.has_file THEN
          IF q.filename = <<>> THEN
             /\ Respond(r, 400)
             /\ UNCHANGED << fs, error, args, wrote >>
          ELSE
             \* with NamedTemporaryFile(...) as tmp: file.save(tmp.name);
             \* file_path = tmp.name
             \E p \in FreshPaths(ext), saved \in BOOLEAN :
                /\ fs' = [fs EXCEPT ![p] = [owner |-> r, kind |-> "upload"]]
                /\ wrote' = [wrote EXCEPT ![r] = Append(@, p)]
                /\ IF saved THEN
                      /\ args' = [args EXCEPT ![r] = [file_path |-> p, file_url |-> None]]
                      /\ hpc' = [hpc EXCEPT ![r] = "spawn"]
                      /\ UNCHANGED << response, error >>
                   ELSE
                      /\ Raise500(r, "save")
                      /\ UNCHANGED args
       ELSE IF q.is_json THEN
          IF ~q.json.is_object THEN
             /\ Raise500(r, "json")
             /\ UNCHANGED << fs, args, wrote >>
          ELSE IF file_url = None THEN
             /\ Respond(r, 400)
             /\ UNCHANGED << fs, error, args, wrote >>
          ELSE
             /\ args' = [args EXCEPT ![r] = [file_path |-> NoPath, file_url |-> file_url]]
             /\ hpc' = [hpc EXCEPT ![r] = "spawn"]
             /\ UNCHANGED << response, fs, error, wrote >>
       ELSE
          /\ Respond(r, 400)
          /\ UNCHANGED << fs, error, args, wrote >>
    /\ UNCHANGED << request, stage, tmp_path, source_url, invoice_data,
                    completion_calls, create_calls, rows,
                    sent >>
    /\ UNCHANGED pureVars

\* threading.Thread(target=process_background, args=(...)).start(), which
\* raises RuntimeError when no thread can be started.
Spawn(r) ==
    /\ hpc[r] = "spawn"
    /\ \E started \in BOOLEAN :
          IF started THEN
             /\ stage' = [stage EXCEPT ![r] = "Acquiring"]
             /\ hpc' = [hpc EXCEPT ![r] = "started"]
             /\ UNCHANGED << response, error >>
          ELSE
             /\ Raise500(r, "thread")
             /\ UNCHANGED stage
    /\ UNCHANGED << request, args, tmp_path, source_url, invoice_data, fs,
                    completion_calls, create_calls, rows,
                    wrote, sent >>
    /\ UNCHANGED pureVars

\* A variant that joins the background thread before it answers.
AcknowledgeAfterJoin(r) ==
    /\ hpc[r] = "started"
    /\ stage[r] \in {"Done", "Failed"}
    /\ Respond(r, 202)
    /\ UNCHANGED << request, args, stage, tmp_path, source_url, invoice_data,
                    error, fs, completion_calls, create_calls, rows,
                    wrote, sent >>
    /\ UNCHANGED pureVars

\* A variant that reports a failure of the run it can already see.
AcknowledgeOutcome(r) ==
    /\ hpc[r] = "started"
    /\ Respond(r, IF error[r] = "none" THEN 202 ELSE 500)
    /\ UNCHANGED << request, args, stage, tmp_path, source_url, invoice_data,
                    error, fs, completion_calls, create_calls, rows,
                    wrote, sent >>
    /\ UNCHANGED pureVars

\* return jsonify({"success": True, "message": "Processing..."}), 202
Acknowledge(r) ==
    /\ hpc[r] = "started"
    /\ Respond(r, 202)
    /\ UNCHANGED << request, args, stage, tmp_path, source_url, invoice_data,
                    error, fs, completion_calls, create_calls, rows,
                    wrote, sent >>
    /\ UNCHANGED pureVars

\* process_background, first part: download file_url or take file_path.
Acquire(r) ==
    LET file_url == args[r].file_url
    IN
    /\ stage[r] = "Acquiring"
    /\ IF file_url # None THEN
          /\ source_url' = [source_url EXCEPT ![r] = file_url]
          /\ \E fetched \in BOOLEAN :
                IF ~fetched THEN
                   \* requests.get / raise_for_status raises
                   /\ Fail(r, "fetch")
                   /\ UNCHANGED << fs, tmp_path, wrote >>
                ELSE
                   \E content_type_pdf \in BOOLEAN, written \in BOOLEAN :
                      LET ext == IF content_type_pdf \/ EndsWithPdf(file_url)
                                 THEN "pdf" ELSE "jpg"
                      IN \E p \in FreshPaths(ext) :
                            /\ fs' = [fs EXCEPT ![p] = [owner |-> r, kind |-> "download"]]
                            /\ wrote' = [wrote EXCEPT ![r] = Append(@, p)]
                            /\ IF written THEN
                                  /\ tmp_path' = [tmp_path EXCEPT ![r] = p]
                                  /\ stage' = [stage EXCEPT ![r] = FirstStage(p)]
                                  /\ UNCHANGED error
                               ELSE
                                  /\ Fail(r, "write")
                                  /\ UNCHANGED tmp_path
       ELSE
          /\ tmp_path' = [tmp_path EXCEPT ![r] = args[r].file_path]
          /\ stage' = [stage EXCEPT ![r] = FirstStage(args[r].file_path)]
          /\ UNCHANGED << source_url, fs, error, wrote >>
    /\ UNCHANGED << request, hpc, response, args, invoice_data,
                    completion_calls, create_calls, rows,
                    sent >>
    /\ UNCHANGED pureVars

\* extract_invoice_data, the PDF branch: pdf_to_image(file_path).
Rasterize(r) ==
    LET pdf_path == tmp_path[r]
        img_path == ReplacePdfPng(pdf_path)
    IN
    /\ stage[r] = "Rasterizing"
    /\ \E outcome \in {"open_failed", "write_failed", "ok"} :
          IF outcome = "open_failed" \/ fs[pdf_path] = NoFile THEN
             \* fitz.open raises, or the PDF has no pages
             /\ Fail(r, "raster")
             /\ UNCHANGED << fs, wrote >>
          ELSE
             \* with open(img_path, 'wb') as f: f.write(img_bytes)
             /\ fs' = [fs EXCEPT ![img_path] = [owner |-> r, kind |-> "raster"]]
             /\ wrote' = [wrote EXCEPT ![r] = Append(@, img_path)]
             /\ IF outcome = "ok" THEN
                   /\ stage' = [stage EXCEPT ![r] = "Extracting"]
                   /\ UNCHANGED error
                ELSE Fail(r, "raster")
    /\ UNCHANGED << request, hpc, response, args, tmp_path, source_url,
                    invoice_data, completion_calls, create_calls, rows,
                    sent >>
    /\ UNCHANGED pureVars

\* extract_invoice_data, after rasterization: read the file, call the
\* completion service, strip the fence and json.loads the content.
Extract(r) ==
    LET file_path == ImagePath(tmp_path[r])
    IN
    /\ stage[r] = "Extracting"
    /\ IF fs[file_path] = NoFile THEN
          \* open(file_path, "rb") raises FileNotFoundError
          /\ Fail(r, "read")
          /\ UNCHANGED << completion_calls, invoice_data, sent >>
       ELSE
          \* img_bytes = img_file.read(), sent as the image_url of the request
          /\ sent' = [sent EXCEPT ![r] = [path |-> file_path, file |-> fs[file_path]]]
          /\ completion_calls' = [completion_calls EXCEPT ![r] = @ + 1]
          /\ \E outcome \in {"service", "parse", "ok"} :
                IF outcome = "ok" THEN
                   /\ \E d \in InvoiceSamples :
                         invoice_data' = [invoice_data EXCEPT ![r] = d]
                   /\ stage' = [stage EXCEPT ![r] = "Persisting"]
                   /\ UNCHANGED error
                ELSE
                   /\ Fail(r, outcome)
                   /\ UNCHANGED invoice_data
    /\ UNCHANGED << request, hpc, response, args, tmp_path, source_url, fs,
                    create_calls, rows,
                    wrote >>
    /\ UNCHANGED pureVars

\* A variant that tries the store a second time when it rejects the row.
PersistRetry(r) ==
    LET call == save_to_airtable(invoice_data[r], source_url[r])
    IN
    /\ stage[r] = "Persisting"
    /\ IF call.outcome = "TypeError" THEN
          /\ Fail(r, "render")
          /\ UNCHANGED << create_calls, rows >>
       ELSE
          /\ create_calls' = [create_calls EXCEPT ![r] = @ + 1]
          /\ \E accepted \in BOOLEAN :
                IF accepted THEN
                   /\ rows' = [rows EXCEPT ![r] = Append(@, call.record)]
                   /\ stage' = [stage EXCEPT ![r] = "Cleanup"]
                   /\ UNCHANGED error
                ELSE IF create_calls[r] = 0 THEN UNCHANGED << rows, stage, error >>
                ELSE
                   /\ Fail(r, "store")
                   /\ UNCHANGED rows
    /\ UNCHANGED << request, hpc, response, args, tmp_path, source_url,
                    invoice_data, fs, completion_calls, wrote, sent >>
    /\ UNCHANGED pureVars

\* save_to_airtable(invoice_data, source_file_url=source_url)
Persist(r) ==
    LET call == save_to_airtable(invoice_data[r], source_url[r])
    IN
    /\ stage[r] = "Persisting"
    /\ IF call.outcome = "TypeError" THEN
          /\ Fail(r, "render")
          /\ UNCHANGED << create_calls, rows >>
       ELSE
          \* created = airtable_table.create(record): accepted or rejected
          /\ create_calls' = [create_calls EXCEPT ![r] = @ + 1]
          /\ \E accepted \in BOOLEAN :
                IF accepted THEN
                   /\ rows' = [rows EXCEPT ![r] = Append(@, call.record)]
                   /\ stage' = [stage EXCEPT ![r] = "Cleanup"]
                   /\ UNCHANGED error
                ELSE
                   /\ Fail(r, "store")
                   /\ UNCHANGED rows
    /\ UNCHANGED << request, hpc, response, args, tmp_path, source_url,
                    invoice_data, fs, completion_calls,
                    wrote, sent >>
    /\ UNCHANGED pureVars

\* The cleanup block: process_background's finally, webhook's "# Cleanup"
\* and "# Cleanup on error".  The run is over after it.
Cleanup(r) ==
    /\ stage[r] = "Cleanup"
    /\ fs' = CleanupFiles(fs, tmp_path[r])
    /\ stage' = [stage EXCEPT ![r] = IF error[r] = "none" THEN "Done" ELSE "Failed"]
    /\ UNCHANGED << request, hpc, response, args, tmp_path, source_url,
                    invoice_data, error, completion_calls, create_calls, rows,
                    wrote, sent >>
    /\ UNCHANGED pureVars

\* A variant that answers while the inline run is still going.
WebhookReturnEarly(r) ==
    /\ hpc[r] = "running"
    /\ Respond(r, IF error[r] = "none" THEN 200 ELSE 500)
    /\ UNCHANGED << request, args, stage, tmp_path, source_url, invoice_data,
                    error, fs, completion_calls, create_calls, rows,
                    wrote, sent >>
    /\ UNCHANGED pureVars

\* webhook's two returns after an inline run: 200 with the data, or 500.
WebhookReturn(r) ==
    /\ hpc[r] = "running"
    /\ stage[r] \in {"Done", "Failed"}
    /\ Respond(r, IF error[r] = "none" THEN 200 ELSE 500)
    /\ UNCHANGED << request, args, stage, tmp_path, source_url, invoice_data,
                    error, fs, completion_calls, create_calls, rows,
                    wrote, sent >>
    /\ UNCHANGED pureVars

RunStep(r) ==
    \/ Receive(r)
    \/ WebhookRoute(r)
    \/ SoftrRoute(r)
    \/ Spawn(r)
    \/ Acknowledge(r)
    \/ Acquire(r)
    \/ Rasterize(r)
    \/ Extract(r)
    \/ Persist(r)
    \/ Cleanup(r)
    \/ WebhookReturn(r)

Next == \E r \in Reqs : RunStep(r)

\* The endpoints serving requests.
Spec == Init /\ [][Next]_vars

\* The same, with every thread that can take a step eventually taking one:
\* handler threads and background threads are scheduled by the OS.
FairSpec == Spec /\ \A r \in Reqs : WF_vars(RunStep(r))

\* ------------------------------------------------ save_to_airtable alone
SaveInit ==
    /\ RunInit /\ ParseIdle
    /\ save_args \in [invoice_data : InvoiceData,
                      source_file_url : {None, "https://h/inv.pdf"}]
    /\ save_result = NoSave

SaveCall ==
    /\ save_result = NoSave
    /\ save_result' = save_to_airtable(save_args.invoice_data, save_args.source_file_url)
    /\ UNCHANGED << save_args, runVars, parseVars >>

SaveSpec == SaveInit /\ [][SaveCall]_vars

\* --------------------------------- the completion text's post-processing
ParseInit ==
    /\ RunInit /\ SaveIdle
    /\ payload \in JsonTexts(MaxPayload)
    /\ \E fence \in Fences : content = Wrap(fence, payload)
    /\ data = Unparsed

ParseResponse ==
    /\ data = Unparsed
    /\ data' = ParseContent(content)
    /\ UNCHANGED << payload, content, runVars, saveVars >>

ParseSpec == ParseInit /\ [][ParseResponse]_vars


\* ------------------------------------------------------------- properties
Responded(r) == response[r] # 0
RunOver(r) == stage[r] \in {"Done", "Failed"}
Inline(r) == request[r].endpoint = "/webhook"
Background(r) == request[r].endpoint = "/softr-webhook"

\* The transient files written for r that still exist.
FilesOf(r) == { p \in Paths : fs[p].owner = r }

\* The request carries a file with a name, or a JSON object with a URL.
SuppliesInput(q) ==
    \/ q.has_file /\ q.filename # <<>>
    \/ ~q.has_file /\ q.is_json /\ q.json.is_object /\ FileUrlOf(q.json) # None

\* The request carries neither: no file part and no JSON body, an empty
\* filename, or a JSON body without file_url / fileUrl.
NoInput(q) == q # NoRequest /\ ~SuppliesInput(q)

\* The URL the caller submitted.
SubmittedUrl(r) == FileUrlOf(request[r].json)

\* C1: once the request is served and its run, if any, is over (Done or
\* Failed), no transient file written for it exists any more.
C1_NoTransientFileLeft ==
    \A r \in Reqs :
        (RunOver(r) \/ (hpc[r] = "done" /\ stage[r] = "none")) => FilesOf(r) = {}

C3_AckBeforeRunOver ==
    \A r \in Reqs : (Background(r) /\ RunOver(r)) => response[r] = 202

\* C3 amended: /softr-webhook answers 202 only once the background thread is
\* started, and never waits for it: whatever stage the run is in, terminal
\* or not, the handler can answer.
C3_AckNeverWaits ==
    \A r \in Reqs :
        Background(r) =>
            /\ response[r] = 202 => stage[r] # "none"
            /\ hpc[r] = "started" => ENABLED Acknowledge(r)

C3_Witness ==
    \E r \in Reqs : Background(r) /\ response[r] = 202 /\ stage[r] = "Acquiring"

\* C4 as stated: every /softr-webhook submission that supplies an input is
\* answered 202.
C4_Always202 ==
    \A r \in Reqs :
        (Background(r) /\ SuppliesInput(request[r]) /\ Responded(r)) => response[r] = 202

\* C4 amended: a /softr-webhook submission that supplies an input is answered
\* 202 once its thread is started, whatever the run does then or has done
\* already; it is answered 500 exactly when saving the upload or starting
\* the thread failed.
C4_202WhateverTheRun ==
    \A r \in Reqs :
        (Background(r) /\ SuppliesInput(request[r]) /\ Responded(r)) =>
            /\ response[r] \in {202, 500}
            /\ response[r] = 202 <=> stage[r] # "none"
            /\ response[r] = 500 <=> error[r] \in {"save", "thread"}

C4_Witness ==
    \E r \in Reqs :
        /\ Background(r) /\ SuppliesInput(request[r])
        /\ response[r] = 202 /\ stage[r] = "Failed" /\ error[r] = "service"

\* C5: when the completion call fails in an inline run, no row-creation call
\* is made, and the answer is 500 and comes after the run's files are gone.
C5_InlineServiceFailure ==
    \A r \in Reqs :
        (Inline(r) /\ request[r].has_file /\ error[r] = "service") =>
            /\ create_calls[r] = 0 /\ rows[r] = <<>>
            /\ completion_calls[r] = 1
            /\ Responded(r) => (response[r] = 500 /\ FilesOf(r) = {})

C5_Witness ==
    \E r \in Reqs :
        /\ Inline(r) /\ request[r].has_file /\ IsPdf(tmp_path[r])
        /\ error[r] = "service" /\ response[r] = 500

\* C6: a submission without file and URL is answered 400 by both endpoints
\* and starts no run, writes no file and creates no row.
C6_NoInput400 ==
    \A r \in Reqs :
        (NoInput(request[r]) /\ hpc[r] # "route") =>
            /\ Responded(r) /\ response[r] = 400
            /\ stage[r] = "none" /\ FilesOf(r) = {} /\ rows[r] = <<>>

\* C7: rows never number more than one per run; a row carries Source File
\* URL exactly when the run came from a file_url, and then it is the
\* submitted URL; and a /softr-webhook run on a file_url ends, with exactly
\* one such row unless a stage failed.
C7_RowSafety ==
    \A r \in Reqs :
        /\ Len(rows[r]) <= 1
        /\ \A i \in 1..Len(rows[r]) :
              IF request[r].has_file
              THEN "Source File URL" \notin DOMAIN rows[r][i]
              ELSE /\ "Source File URL" \in DOMAIN rows[r][i]
                   /\ rows[r][i]["Source File URL"] = Scalar(SubmittedUrl(r))

C7_UrlRunEnds(r) ==
    /\ RunOver(r)
    /\ error[r] = "none" => (Len(rows[r]) = 1 /\ stage[r] = "Done")

C7_UrlRunCreatesRow ==
    /\ []C7_RowSafety
    /\ \A r \in Reqs :
          (Background(r) /\ ~request[r].has_file /\ stage[r] = "Acquiring")
              ~> C7_UrlRunEnds(r)

C7_Witness ==
    \E r \in Reqs :
        /\ Background(r) /\ ~request[r].has_file /\ stage[r] = "Done"
        /\ Len(rows[r]) = 1
        /\ rows[r][1]["Source File URL"] = Scalar("https://h/inv.pdf")

\* C8: an upload with an extension outside the allowed set is answered 400
\* by both endpoints, and no file is written, no run started, no completion
\* call and no store write made for it.
C8_DisallowedRejected ==
    \A r \in Reqs :
        (/\ request[r].has_file /\ request[r].filename # <<>>
         /\ ExtOf(request[r].filename) \notin allowed
         /\ hpc[r] # "route") =>
            /\ Responded(r) /\ response[r] = 400
            /\ FilesOf(r) = {} /\ stage[r] = "none"
            /\ completion_calls[r] = 0 /\ create_calls[r] = 0

\* The columns C9 expects: those of the present top-level fields, Line Items
\* and Status, and Source File URL when a URL was given.
ExpectedColumns(a) ==
    { ColumnOf(k) : k \in { f \in TopFields : a.invoice_data.top[f] = "present" } }
    \cup {"Line Items", "Status"}
    \cup (IF a.source_file_url # None THEN {"Source File URL"} ELSE {})

\* C9: the record passed to the store has exactly the columns of the present
\* top-level fields, Line Items, Status, and Source File URL when a URL was
\* given; and no column holds None.
C9_RecordKeys ==
    save_result.outcome = "create" =>
        /\ DOMAIN save_result.record = ExpectedColumns(save_args)
        /\ \A c \in DOMAIN save_result.record : save_result.record[c] # PyNone

C9_Witness ==
    /\ save_result.outcome = "create"
    /\ save_args.invoice_data.top["tax"] = None
    /\ save_args.invoice_data.top["currency"] = Missing
    /\ save_args.invoice_data.top["subtotal"] = "present"
    /\ save_args.source_file_url # None
    /\ "Subtotal" \in DOMAIN save_result.record

\* C10: a payload parses to the same record whether it comes in a json
\* fence, a plain fence or bare, namely to what json.loads gives for the
\* payload; and stripping the fence twice is stripping it once.
C10_FenceAgnostic ==
    data # Unparsed =>
        /\ data = Loads(payload)
        /\ StripFence(StripFence(content)) = StripFence(content)

\* The sub-fields of a line item, in the order the entry shows them.
ItemFields == <<"description", "quantity", "unit_price", "amount">>

\* An absent sub-field: the key is missing or its value is null.
Absent(v) == v \in {Missing, None}

\* C11: the Line Items text has one entry per item, in the items' order, and
\* an entry shows each sub-field's value, or a zero or empty placeholder
\* where the sub-field is missing or null.
C11_LineItemsRendered ==
    (/\ save_result.outcome = "create"
     /\ save_args.invoice_data.line_items.state = "list") =>
        LET items == save_args.invoice_data.line_items.items
            text == save_result.record["Line Items"].lines
        IN  /\ Len(text) = Len(items)
            /\ \A i \in 1..Len(items) : \A f \in 1..4 :
                  IF Absent(items[i][ItemFields[f]])
                  THEN text[i][f] \in {"", "0"}
                  ELSE text[i][f] = items[i][ItemFields[f]]

\* The format tag of the run's input is the suffix of its transient file.
ImageRun(r) == tmp_path[r] # NoPath /\ tmp_path[r].ext \in allowed \ {"pdf"}
PdfRun(r) == tmp_path[r] # NoPath /\ IsPdf(tmp_path[r])

\* The file as the run's acquisition wrote it: the upload or the download.
Original(r, file) == file.owner = r /\ file.kind \in {"upload", "download"}

\* C12: a run on an image never rasterizes and writes no second file, and
\* what it reads and sends is its transient file as it was written; a run on
\* a PDF writes at most one raster image, and what it sends is that image.
C12_RasterOnlyForPdf ==
    \A r \in Reqs :
        /\ ImageRun(r) =>
              /\ stage[r] # "Rasterizing"
              /\ Len(wrote[r]) = 1
              /\ sent[r] # NoSent =>
                    (sent[r].path = tmp_path[r] /\ Original(r, sent[r].file))
        /\ PdfRun(r) =>
              /\ Len(wrote[r]) <= 2
              /\ sent[r] # NoSent =>
                    /\ Len(wrote[r]) = 2
                    /\ sent[r].path = wrote[r][2]
                    /\ sent[r].path # tmp_path[r]
                    /\ sent[r].file = [owner |-> r, kind |-> "raster"]

\* The steps a run takes from one stage to the next: an inline run starts
\* with its file saved by the handler, a detached run in Acquiring; every
\* stage can fail, which leads to the cleanup and then Failed.
StageOrder ==
    { <<"none", "Acquiring">>, <<"none", "Rasterizing">>, <<"none", "Extracting">>,
      <<"Acquiring", "Rasterizing">>, <<"Acquiring", "Extracting">>,
      <<"Rasterizing", "Extracting">>, <<"Extracting", "Persisting">>,
      <<"Persisting", "Cleanup">>, <<"Cleanup", "Done">> }
    \cup { <<st, "Cleanup">> : st \in {"Acquiring", "Rasterizing", "Extracting"} }
    \cup { <<"Cleanup", "Failed">> }

\* The run of r has failed: an exception was raised in one of its stages.
RunFailed(r) == stage[r] # "none" /\ error[r] # "none"

C13_Order ==
    \A r \in Reqs :
        /\ stage[r] = "Rasterizing" => IsPdf(tmp_path[r])
        /\ completion_calls[r] > 0 =>
              /\ tmp_path[r] # NoPath /\ wrote[r] # <<>>
              /\ sent[r] # NoSent
              /\ IsPdf(tmp_path[r]) => Len(wrote[r]) = 2
        /\ create_calls[r] > 0 =>
              /\ completion_calls[r] = 1
              /\ invoice_data[r] \in InvoiceSamples
              /\ error[r] \in {"none", "store"}
        /\ stage[r] = "Done" =>
              (error[r] = "none" /\ completion_calls[r] = 1 /\ create_calls[r] = 1)
        /\ stage[r] = "Failed" => error[r] # "none"

C13_Step ==
    \A r \in Reqs :
        /\ stage'[r] # stage[r] => <<stage[r], stage'[r]>> \in StageOrder
        /\ RunFailed(r) =>
              /\ error'[r] = error[r]
              /\ stage'[r] \in {stage[r], "Failed"}
              /\ completion_calls'[r] = completion_calls[r]
              /\ create_calls'[r] = create_calls[r]
              /\ wrote'[r] = wrote[r] /\ sent'[r] = sent[r] /\ rows'[r] = rows[r]

\* C13: every run goes through its stages in the order Acquiring,
\* Rasterizing (PDF only), Extracting, Persisting, Done; the completion call
\* comes after the transient file is there and read, the row creation after
\* the completion response was parsed; and once a stage has failed the run
\* only cleans up: no file is written, no completion call and no row
\* creation made after that.
C13_StagesInOrder == []C13_Order /\ [][C13_Step]_vars

C13_Witness ==
    /\ \E r \in Reqs :
          /\ PdfRun(r) /\ stage[r] = "Done"
          /\ Len(wrote[r]) = 2 /\ completion_calls[r] = 1 /\ create_calls[r] = 1
    /\ \E r \in Reqs :
          /\ PdfRun(r) /\ stage[r] = "Failed" /\ error[r] = "parse"
          /\ Len(wrote[r]) = 2 /\ completion_calls[r] = 1 /\ create_calls[r] = 0

\* The rows in the table, and the submissions for which a run was started.
CreatedRows == { x \in Reqs \X (1..2) : x[2] <= Len(rows[x[1]]) }
Accepted == { r \in Reqs : stage[r] # "none" }

\* C14: a run makes at most one completion call and at most one row-creation
\* call; a run that is Done made exactly one row-creation call and has its
\* row; a run that failed before Persisting made none; and there are never
\* more rows than accepted submissions.
C14_AtMostOnce ==
    /\ \A r \in Reqs :
          /\ completion_calls[r] <= 1
          /\ create_calls[r] <= 1
          /\ Len(rows[r]) <= create_calls[r]
          /\ stage[r] = "Done" => (create_calls[r] = 1 /\ Len(rows[r]) = 1)
          /\ error[r] \in {"save", "thread", "json", "fetch", "write", "raster",
                           "read", "service", "parse"} => create_calls[r] = 0
    /\ Cardinality(CreatedRows) <= Cardinality(Accepted)

C14_Witness ==
    /\ \E r \in Reqs :
          stage[r] = "Done" /\ create_calls[r] = 1 /\ Len(rows[r]) = 1
    /\ \E r \in Reqs :
          /\ stage[r] = "Failed" /\ error[r] = "service"
          /\ completion_calls[r] = 1 /\ create_calls[r] = 0 /\ rows[r] = <<>>

\* The thread that takes the step is the handler of r or the run of r.
Stepping(r) == hpc'[r] # hpc[r] \/ stage'[r] # stage[r]

\* C15: a step of one request never writes over or removes a file another
\* request wrote, the rasterized PNG and the files of the cleanup included,
\* and never reads one.
C15_NoSharedFiles ==
    [][\A r \in Reqs :
          Stepping(r) =>
              /\ \A p \in Paths :
                    (fs[p] # NoFile /\ fs'[p] # fs[p]) => fs[p].owner = r
              /\ sent'[r] # sent[r] => sent'[r].file.owner = r]_vars

\* C16: whichever fields of the parsed record are null or missing,
\* line_items included, save_to_airtable reaches the store, and the record
\* it passes has Line Items and Status.
C16_AbsentFieldsSaved ==
    save_result # NoSave =>
        /\ save_result.outcome = "create"
        /\ {"Line Items", "Status"} \subseteq DOMAIN save_result.record

=============================================================================
